---------------------------- MODULE Spec2Model ----------------------------
(***************************************************************************)
(* Follower evaluation pipeline of the Instagram follower audit tool:      *)
(* the async_retry wrapper (app/utils/helpers.py), the two evaluators      *)
(* (app/core/engagement.py, app/core/profile.py), the decision policy and  *)
(* orchestrator (app/core/workflow.py), the audit logger                   *)
(* (app/core/logger.py) and the batch loop (app/ui/dashboard.py).          *)
(*                                                                         *)
(* Scores are exact rationals in units of 1/ONE; floating-point rounding   *)
(* is not modelled.  Delays are in tenths of a second.                     *)
(***************************************************************************)
EXTENDS Integers, Sequences, FiniteSets, TLC

VARIABLES
    rcfg,               \* retry harness: the decorator's arguments
    rw,                 \* retry harness: the frame of the wrapper call
    rhistory,           \* retry harness: the outcomes of func's invocations so far
    dec,                \* pure-function harnesses: the arguments and the value computed
    followers,          \* process_followers: the batch
    idx,                \* process_followers: followers dealt with so far
    results,            \* process_followers: the list it builds and returns
    shown,              \* the error_message calls made by process_followers
    pc,                 \* where the evaluation of the current follower stands
    username,           \* audit_follower: local `username`
    engW,               \* frame of the check_engagement wrapper call
    profW,              \* frame of the analyze_profile wrapper call
    engagement_result,  \* audit_follower: local `engagement_result`
    profile_result,     \* audit_follower: local `profile_result`
    ret,                \* what audit_follower returned
    exc,                \* the error audit_follower handles and re-raises
    engagement_checker, \* the controller's EngagementChecker: its `mock_data`
    profile_analyzer,   \* the controller's ProfileAnalyzer: its `mock_data`
    handlers,           \* file handlers attached to the shared logger
    logFile             \* lines of logs/audit_<date>.log

retryVars == <<rcfg, rw, rhistory>>
pureVars == <<dec>>
batchVars == <<followers, idx, results, shown>>
auditVars == <<pc, username, engW, profW, engagement_result, profile_result, ret, exc>>
logVars == <<handlers, logFile>>
controllerVars == <<engagement_checker, profile_analyzer>>
pipelineVars == <<batchVars, auditVars, logVars, controllerVars>>
harnessVars == <<retryVars, pureVars>>
vars == <<harnessVars, pipelineVars>>

(***************************************************************************)
(* Bounds of the model.                                                    *)
(***************************************************************************)
MaxAttemptsBound == 3
MaxBatch == 3
MaxControllers == 2

(***************************************************************************)
(* Units.                                                                  *)
(***************************************************************************)
ONE == 60 * 100
Pct(h) == h * (ONE \div 100)
Tenths(s) == s * 10

Min(a, b) == IF a <= b THEN a ELSE b
Pow2(n) == IF n = 0 THEN 1 ELSE IF n = 1 THEN 2 ELSE IF n = 2 THEN 4
           ELSE IF n = 3 THEN 8 ELSE IF n = 4 THEN 16 ELSE 32

(***************************************************************************)
(* Values, errors and outcomes of one invocation of a wrapped operation.   *)
(***************************************************************************)
None == [val |-> "None"]
NoError == [kind |-> "None", id |-> 0, msg |-> ""]
Returns(v) == [tag |-> "return", value |-> v, error |-> NoError]
Raises(kind, id, msg) == [tag |-> "raise", value |-> None,
                          error |-> [kind |-> kind, id |-> id, msg |-> msg]]
\* str(e): the message, without the class
Str(e) == e.msg

\* isinstance(e, cls) for the exception classes that occur:
\* ConnectionError and TimeoutError derive from OSError, all from Exception.
IsInstance(kind, cls) ==
    \/ cls = kind
    \/ cls = "Exception"
    \/ cls = "OSError" /\ kind \in {"ConnectionError", "TimeoutError"}

\* mutant: a bare `except Exception`
Catches_all(exceptions, kind) == TRUE

\* `except exceptions as e`: the error is caught when it is an instance of
\* one of the configured classes.
Catches(exceptions, kind) == \E cls \in exceptions : IsInstance(kind, cls)

(***************************************************************************)
(* async_retry.  A configuration is the decorator's arguments; a frame is  *)
(* the local state of one call of the wrapper.                             *)
(***************************************************************************)
\* random.uniform(0, 1), in tenths of a second
JitterSet == {0, 9}

\* mutant: the delay is not capped
_calculate_delay_uncapped(attempt, base_delay, max_delay, jitter) ==
    base_delay * Pow2(attempt) + jitter

_calculate_delay(attempt, base_delay, max_delay, jitter) ==
    Min(base_delay * Pow2(attempt) + jitter, max_delay)

NewFrame ==
    [pc |-> "running", attempt |-> 0,
     last_exception |-> NoError, last_result |-> None,
     value |-> None, error |-> NoError,
     calls |-> 0, sleeps |-> 0, sleep |-> 0,
     callbacks |-> << >>, callback_errors |-> 0]

IdleFrame == [NewFrame EXCEPT !.pc = "idle"]

WrapperReturn(w, v) == [w EXCEPT !.pc = "returned", !.value = v]
WrapperRaise(w, e) == [w EXCEPT !.pc = "raised", !.error = e]

\* mutant: nothing is remembered after the loop
AfterLoop_none(w) == WrapperReturn(w, None)

\* the statements after the for loop
AfterLoop(w) ==
    IF w.last_result # None THEN WrapperReturn(w, w.last_result)
    ELSE IF w.last_exception # NoError THEN WrapperRaise(w, w.last_exception)
    ELSE WrapperReturn(w, None)

\* mutant: on_retry is given the loop index
CallOnRetry_index(cfg, w, e) ==
    IF cfg.on_retry = "absent" THEN w
    ELSE [w EXCEPT !.callbacks = Append(@, [error |-> e, attempt |-> w.attempt]),
                   !.callback_errors = IF cfg.on_retry = "raises" THEN @ + 1 ELSE @]

\* mutant: on_retry is only called from the second failure on
CallOnRetry_late(cfg, w, e) ==
    IF cfg.on_retry = "absent" \/ w.attempt = 0 THEN w
    ELSE [w EXCEPT !.callbacks = Append(@, [error |-> e, attempt |-> w.attempt + 1]),
                   !.callback_errors = IF cfg.on_retry = "raises" THEN @ + 1 ELSE @]

\* on_retry(e, attempt + 1) inside its try/except
CallOnRetry(cfg, w, e) ==
    IF cfg.on_retry = "absent" THEN w
    ELSE [w EXCEPT !.callbacks = Append(@, [error |-> e, attempt |-> w.attempt + 1]),
                   !.callback_errors = IF cfg.on_retry = "raises" THEN @ + 1 ELSE @]

\* mutant: the loop goes on once more after the last attempt
HasNextAttempt_inclusive(cfg, w) == w.attempt < cfg.max_attempts

\* whether the loop goes on after the current attempt
HasNextAttempt(cfg, w) == w.attempt < cfg.max_attempts - 1

\* suspend in asyncio.sleep(delay): `sleep` is the duration of the sleep in
\* progress, `sleeps` counts the sleeps of this call
Suspend(w, delay) == [w EXCEPT !.pc = "sleeping", !.sleeps = @ + 1, !.sleep = delay]

\* the try branch once func returned `result`
OnResult(cfg, w, result, jitter) ==
    IF cfg.has_retry_on_result /\ result \in cfg.retry_on_result
    THEN LET w1 == [w EXCEPT !.last_result = result] IN
         IF HasNextAttempt(cfg, w1)
         THEN Suspend(w1, _calculate_delay(w1.attempt, cfg.base_delay, cfg.max_delay, jitter))
         ELSE AfterLoop(w1)
    ELSE WrapperReturn(w, result)

\* mutant: the verdict of retry_on_exception is ignored
OnException_unfiltered(cfg, w, e, jitter) ==
    IF ~Catches(cfg.exceptions, e.kind) THEN WrapperRaise(w, e)
    ELSE LET w1 == [w EXCEPT !.last_exception = e] IN
         IF HasNextAttempt(cfg, w1)
         THEN Suspend(CallOnRetry(cfg, w1, e),
                      _calculate_delay(w1.attempt, cfg.base_delay, cfg.max_delay, jitter))
         ELSE WrapperRaise(w1, e)

\* mutant: the first error is remembered and raised when the attempts are
\* exhausted
OnException_first(cfg, w, e, jitter) ==
    IF ~Catches(cfg.exceptions, e.kind) THEN WrapperRaise(w, e)
    ELSE LET w1 == IF w.last_exception = NoError
                   THEN [w EXCEPT !.last_exception = e] ELSE w IN
         IF cfg.has_retry_on_exception /\ e.kind \notin cfg.retry_on_exception
         THEN WrapperRaise(w1, e)
         ELSE IF HasNextAttempt(cfg, w1)
         THEN Suspend(CallOnRetry(cfg, w1, e),
                      _calculate_delay(w1.attempt, cfg.base_delay, cfg.max_delay, jitter))
         ELSE WrapperRaise(w1, w1.last_exception)

\* the except branch once func raised `e`
OnException(cfg, w, e, jitter) ==
    IF ~Catches(cfg.exceptions, e.kind) THEN WrapperRaise(w, e)
    ELSE LET w1 == [w EXCEPT !.last_exception = e] IN
         IF cfg.has_retry_on_exception /\ e.kind \notin cfg.retry_on_exception
         THEN WrapperRaise(w1, e)
         ELSE IF HasNextAttempt(cfg, w1)
         THEN Suspend(CallOnRetry(cfg, w1, e),
                      _calculate_delay(w1.attempt, cfg.base_delay, cfg.max_delay, jitter))
         ELSE WrapperRaise(w1, e)

\* one iteration of the for loop: func was invoked and ended with `out`
WrapperAttempt(cfg, w, out, jitter) ==
    LET w1 == [w EXCEPT !.calls = @ + 1] IN
    IF out.tag = "return" THEN OnResult(cfg, w1, out.value, jitter)
    ELSE OnException(cfg, w1, out.error, jitter)

\* mutant: the sleep never ends
WrapperWake_never(w) == w

\* asyncio.sleep returned: `continue` / fall through to the next iteration
WrapperWake(w) == [w EXCEPT !.pc = "running", !.attempt = @ + 1, !.sleep = 0]

\* the wrapper call has returned and its locals are gone: what is left is
\* that it returned, and what
Finished(w) == [NewFrame EXCEPT !.pc = w.pc, !.value = w.value]

\* entering the wrapper: range(max_attempts) may be empty
WrapperEnter(cfg) == IF cfg.max_attempts = 0 THEN AfterLoop(NewFrame) ELSE NewFrame


(***************************************************************************)
(* Text: a string is a sequence of one-character strings, so that lower()  *)
(* and the `in` substring test are computed.                               *)
(***************************************************************************)
UpperSeq == <<"A","B","C","D","E","F","G","H","I","J","K","L","M",
              "N","O","P","Q","R","S","T","U","V","W","X","Y","Z">>
LowerSeq == <<"a","b","c","d","e","f","g","h","i","j","k","l","m",
              "n","o","p","q","r","s","t","u","v","w","x","y","z">>
LowerChar(c) ==
    IF \E i \in 1..26 : UpperSeq[i] = c
    THEN LowerSeq[CHOOSE i \in 1..26 : UpperSeq[i] = c] ELSE c
Lower(text) == [i \in 1..Len(text) |-> LowerChar(text[i])]
Contains(text, pat) ==
    \E i \in 1..(Len(text) - Len(pat) + 1) : SubSeq(text, i, i + Len(pat) - 1) = pat

(***************************************************************************)
(* Decision policy.                                                        *)
(***************************************************************************)
KEEP == "keep"
REMOVE == "remove"
MONITOR == "monitor"

\* mutant: the second branch reaches down to engagement 0.3
_determine_action_wide(engagement_score, risk_score) ==
    IF engagement_score >= Pct(70) /\ risk_score <= Pct(30) THEN KEEP
    ELSE IF engagement_score >= Pct(30) /\ risk_score <= Pct(50) THEN MONITOR
    ELSE IF engagement_score <= Pct(30) \/ risk_score >= Pct(70) THEN REMOVE
    ELSE MONITOR

\* mutant: the KEEP branch with strict comparisons
_determine_action_strict(engagement_score, risk_score) ==
    IF engagement_score > Pct(70) /\ risk_score < Pct(30) THEN KEEP
    ELSE IF engagement_score >= Pct(50) /\ risk_score <= Pct(50) THEN MONITOR
    ELSE IF engagement_score <= Pct(30) \/ risk_score >= Pct(70) THEN REMOVE
    ELSE MONITOR

_determine_action(engagement_score, risk_score) ==
    IF engagement_score >= Pct(70) /\ risk_score <= Pct(30) THEN KEEP
    ELSE IF engagement_score >= Pct(50) /\ risk_score <= Pct(50) THEN MONITOR
    ELSE IF engagement_score <= Pct(30) \/ risk_score >= Pct(70) THEN REMOVE
    ELSE MONITOR

LowEngagementNotice == "Low engagement - Consider removing if no improvement"
HighRiskNotice == "High risk - Monitor closely or remove"
PrivateNotice == "Private account - Consider impact on engagement"
InactiveNotice == "Inactive account - May be safe to remove"

\* mutant: the low-engagement notice starts below 0.3
_generate_recommendations_low30(engagement_score, risk_score, analysis) ==
    (IF engagement_score < Pct(30) THEN <<LowEngagementNotice>> ELSE << >>)
    \o (IF risk_score > Pct(50) THEN <<HighRiskNotice>> ELSE << >>)
    \o (IF Contains(Lower(analysis), <<"p","r","i","v","a","t","e">>)
        THEN <<PrivateNotice>> ELSE << >>)
    \o (IF Contains(Lower(analysis), <<"i","n","a","c","t","i","v","e">>)
        THEN <<InactiveNotice>> ELSE << >>)

\* mutant: the two score conditions with inclusive comparisons
_generate_recommendations_inclusive(engagement_score, risk_score, analysis) ==
    (IF engagement_score <= Pct(50) THEN <<LowEngagementNotice>> ELSE << >>)
    \o (IF risk_score >= Pct(50) THEN <<HighRiskNotice>> ELSE << >>)
    \o (IF Contains(Lower(analysis), <<"p","r","i","v","a","t","e">>)
        THEN <<PrivateNotice>> ELSE << >>)
    \o (IF Contains(Lower(analysis), <<"i","n","a","c","t","i","v","e">>)
        THEN <<InactiveNotice>> ELSE << >>)

_generate_recommendations(engagement_score, risk_score, analysis) ==
    (IF engagement_score < Pct(50) THEN <<LowEngagementNotice>> ELSE << >>)
    \o (IF risk_score > Pct(50) THEN <<HighRiskNotice>> ELSE << >>)
    \o (IF Contains(Lower(analysis), <<"p","r","i","v","a","t","e">>)
        THEN <<PrivateNotice>> ELSE << >>)
    \o (IF Contains(Lower(analysis), <<"i","n","a","c","t","i","v","e">>)
        THEN <<InactiveNotice>> ELSE << >>)

(***************************************************************************)
(* The evaluators.                                                         *)
(***************************************************************************)
\* the decorator arguments of check_engagement and of analyze_profile
EvaluatorRetry ==
    [max_attempts |-> 3, base_delay |-> Tenths(1), max_delay |-> Tenths(10),
     exceptions |-> {"ConnectionError", "TimeoutError"},
     on_retry |-> "absent",
     has_retry_on_result |-> FALSE, retry_on_result |-> {},
     has_retry_on_exception |-> FALSE, retry_on_exception |-> {}]

Missing == "<no username>"
\* follower_data.get("username", "Unknown")
GetUsername(follower) == IF follower.username = Missing THEN "Unknown" ELSE follower.username

\* sum(mock_metrics.values())
RECURSIVE SumValues(_)
SumValues(m) ==
    IF DOMAIN m = {} THEN 0
    ELSE LET k == CHOOSE k \in DOMAIN m : TRUE IN
         m[k] + SumValues([j \in DOMAIN m \ {k} |-> m[j]])

AllMetrics(v) == [k \in {"likes", "comments", "shares", "saves"} |-> v]

\* data/mock_engagement.json and data/mock_profiles.json as loaded by the
\* constructors: the entries the model runs with
MockEngagementUsers == {"alice", "bob", "empty"}
MockEngagement(u) ==
    IF u = "alice" THEN AllMetrics(Pct(80))
    ELSE IF u = "bob" THEN [k \in {"likes", "comments"} |-> IF k = "likes" THEN Pct(30) ELSE Pct(10)]
    ELSE [k \in {} |-> 0]
MockProfileUsers == {"alice", "bob", "empty"}
MockProfiles(u) ==
    IF u = "alice"
    THEN [risk_score |-> Pct(20), analysis |-> <<"A","c","t","i","v","e">>, confidence |-> Pct(90)]
    ELSE IF u = "bob"
    THEN [risk_score |-> Pct(60),
          analysis |-> <<"N","o","w"," ","I","n","a","c","t","i","v","e">>,
          confidence |-> Pct(90)]
    ELSE [risk_score |-> Pct(50), analysis |-> <<"P","R","I","V","A","T","E">>,
          confidence |-> Pct(80)]

\* EngagementChecker() and ProfileAnalyzer(api_key): _load_mock_data reads
\* the file into self.mock_data
EngagementChecker == [mock_data |-> [u \in MockEngagementUsers |-> MockEngagement(u)]]
ProfileAnalyzer == [mock_data |-> [u \in MockProfileUsers |-> MockProfiles(u)]]

\* the default of mock_data.get: four random.uniform(0, 1) draws
RandomMetrics ==
    {AllMetrics(Pct(80)),
     [k \in {"likes", "comments", "shares", "saves"} |->
         IF k = "likes" THEN Pct(90) ELSE IF k = "comments" THEN Pct(70)
         ELSE IF k = "shares" THEN Pct(30) ELSE Pct(10)]}
\* "Standard profile with normal activity"
DefaultAnalysis ==
        <<"S","t","a","n","d","a","r","d"," ","p","r","o","f","i","l",
          "e"," ","w","i","t","h"," ","n","o","r","m","a","l"," ","a",
          "c","t","i","v","i","t","y">>

\* the default profile: risk_score is a random.uniform(0, 1) draw
RandomProfiles ==
    {[risk_score |-> r, analysis |-> DefaultAnalysis, confidence |-> Pct(90)] :
        r \in {Pct(20), Pct(80)}}

\* what the lookup behind an evaluator does at one invocation: it answers,
\* or fails with a connectivity-class error
Faults == {"none", "ConnectionError", "TimeoutError"}

\* mutant: the sum is divided by the number of metrics there can be
engagement_result_of_four(mock_metrics, n) ==
    Returns([score |-> SumValues(mock_metrics) \div 4, metrics |-> mock_metrics])

\* check_engagement once the metrics are looked up:
\* sum(mock_metrics.values()) / len(mock_metrics), then the result object
engagement_result_of(mock_metrics, n) ==
    IF Cardinality(DOMAIN mock_metrics) = 0
    THEN Raises("ZeroDivisionError", n, "division by zero")
    ELSE Returns([score |-> SumValues(mock_metrics) \div Cardinality(DOMAIN mock_metrics),
                  metrics |-> mock_metrics])

\* body of check_engagement at its n-th invocation
check_engagement(self, u, fault, draw, n) ==
    IF fault # "none" THEN Raises(fault, n, "lookup failed")
    ELSE LET mock_metrics == IF u \in DOMAIN self.mock_data THEN self.mock_data[u] ELSE draw IN
         engagement_result_of(mock_metrics, n)

\* body of analyze_profile at its n-th invocation
analyze_profile(self, u, fault, draw, n) ==
    IF fault # "none" THEN Raises(fault, n, "lookup failed")
    ELSE LET mock_profile == IF u \in DOMAIN self.mock_data THEN self.mock_data[u] ELSE draw IN
         Returns([risk_score |-> mock_profile.risk_score,
                  analysis |-> mock_profile.analysis,
                  confidence |-> mock_profile.confidence])

(***************************************************************************)
(* The audit logger.  Every AuditLogger() adds one more file handler to    *)
(* the one logger logging.getLogger("app.core.logger"); a record logged    *)
(* is written once by each handler.                                        *)
(***************************************************************************)
RECURSIVE Repeat(_, _)
Repeat(line, n) == IF n = 0 THEN << >> ELSE <<line>> \o Repeat(line, n - 1)

\* Logger.info / Logger.error: every attached handler emits the record
Emit(file, line, nhandlers) == file \o Repeat(line, nhandlers)

\* json.dumps(log_data) raises TypeError on a value JSON cannot encode
NonSerializable == {"b'eve'"}
JsonSerializable(u) == u \notin NonSerializable

\* mutant: the two scores change places in the record
AuditLine_swapped(u, engagement_score, risk_score, action, reason) ==
    [kind |-> "audit", level |-> "INFO", username |-> u, timestamp |-> "now",
     engagement_score |-> risk_score, risk_score |-> engagement_score,
     action |-> action, reason |-> reason]

AuditLine(u, engagement_score, risk_score, action, reason) ==
    [kind |-> "audit", level |-> "INFO", username |-> u, timestamp |-> "now",
     engagement_score |-> engagement_score, risk_score |-> risk_score,
     action |-> action, reason |-> reason]

ErrorLine(u, error) ==
    [kind |-> "error", level |-> "ERROR", username |-> u, error |-> error]

(***************************************************************************)
(* The pipeline: process_followers over one batch, audit_follower for each *)
(* follower.                                                               *)
(***************************************************************************)
FollowerSet == {[username |-> u] : u \in {"alice", "bob", "empty", "b'eve'", Missing}}

RECURSIVE SeqsUpTo(_, _)
SeqsUpTo(S, n) ==
    IF n = 0 THEN {<< >>}
    ELSE LET shorter == SeqsUpTo(S, n - 1) IN
         shorter \cup {Append(q, x) : q \in {t \in shorter : Len(t) = n - 1}, x \in S}

\* an entry of a .json upload that is not a dict (a number, a string, null)
NotADict == [nondict |-> TRUE]
\* isinstance(follower, dict)
IsDict(follower) == "username" \in DOMAIN follower

\* a .csv upload gives records only; a .json upload is a list of anything
CsvUploads == SeqsUpTo(FollowerSet, MaxBatch)
JsonUploads == SeqsUpTo(FollowerSet \cup {NotADict}, MaxBatch)

\* process_json_data: entries that are not dicts are skipped; a dict lacking
\* "username" makes it raise, the whole upload being refused.  The message
\* ends with the repr of the offending record, which for a record of the
\* model without username is the empty dict.
process_json_data(data) ==
    IF \E i \in 1..Len(data) : IsDict(data[i]) /\ data[i].username = Missing
    THEN Raises("ValueError", 1, "Missing username in follower data: {}")
    ELSE Returns(SelectSeq(data, IsDict))

\* .json uploads that load, and what they load as
JsonLoaded == {process_json_data(d).value :
                  d \in {x \in JsonUploads : process_json_data(x).tag = "return"}}
\* .csv uploads: pd.read_csv(...).to_dict("records"), records taken as they are
CsvLoaded == CsvUploads

NoResult == [username |-> "", engagement_score |-> 0, risk_score |-> 0,
             action |-> "", reason |-> << >>, recommendations |-> << >>]
NoEngagement == [score |-> 0, metrics |-> [k \in {} |-> 0]]
NoProfile == [risk_score |-> 0, analysis |-> << >>, confidence |-> 0]

\* no audit_follower call is active: its locals do not exist
AuditIdle ==
    /\ pc = "idle" /\ username = ""
    /\ engW = IdleFrame /\ profW = IdleFrame
    /\ engagement_result = NoEngagement /\ profile_result = NoProfile
    /\ ret = NoResult /\ exc = NoError

\* audit_follower has ended: its locals are gone
AuditReset ==
    /\ pc' = "idle" /\ username' = ""
    /\ engW' = IdleFrame /\ profW' = IdleFrame
    /\ engagement_result' = NoEngagement /\ profile_result' = NoProfile
    /\ ret' = NoResult /\ exc' = NoError

PipelineIdle ==
    /\ idx = 0 /\ results = << >> /\ shown = << >>
    /\ AuditIdle
    /\ handlers = 1 /\ logFile = << >>
    /\ engagement_checker = EngagementChecker /\ profile_analyzer = ProfileAnalyzer

\* the harnesses are not in use
RetryIdle == rcfg = EvaluatorRetry /\ rw = IdleFrame /\ rhistory = << >>
NoDecision == [pc |-> "idle", engagement_score |-> 0, risk_score |-> 0, action |-> ""]
PureIdle == dec = NoDecision

Init ==
    /\ RetryIdle
    /\ PureIdle
    /\ followers \in JsonLoaded \cup CsvLoaded
    /\ PipelineIdle

\* WorkflowController(...) is constructed once more, at any time: by a rerun
\* of the dashboard script in another session of the process, or by another
\* task while process_followers is suspended.  Its AuditLogger() adds a file
\* handler to the process-wide logger.
NewWorkflowController ==
    /\ handlers < MaxControllers
    /\ handlers' = handlers + 1
    /\ UNCHANGED <<harnessVars, controllerVars, batchVars, auditVars, logFile>>

\* the stand-alone analyzer (app/core/analyzer.py) is constructed, at any
\* time: its __init__ calls AuditLogger() as well
NewProfileAnalyzer ==
    /\ handlers < MaxControllers
    /\ handlers' = handlers + 1
    /\ UNCHANGED <<harnessVars, controllerVars, batchVars, auditVars, logFile>>

\* process_followers takes the next follower and calls audit_follower,
\* which calls check_engagement
AuditStart ==
    /\ pc = "idle" /\ idx < Len(followers)
    /\ username' = GetUsername(followers[idx + 1])
    /\ engW' = WrapperEnter(EvaluatorRetry)
    /\ pc' = "engagement"
    /\ UNCHANGED <<harnessVars, controllerVars, batchVars, logVars, profW,
                   engagement_result, profile_result, ret, exc>>

\* audit_follower's try block around the two awaits: where control goes
\* once the wrapper call `w` has run one more attempt
\* mutant: a failed engagement check is swallowed and the profile analysed
PcAfterEngagement_swallow(w) ==
    IF w.pc \in {"returned", "raised"} THEN "profile" ELSE "engagement"

PcAfterEngagement(w) ==
    IF w.pc = "returned" THEN "profile"
    ELSE IF w.pc = "raised" THEN "except" ELSE "engagement"

PcAfterProfile(w) ==
    IF w.pc = "returned" THEN "decide"
    ELSE IF w.pc = "raised" THEN "except" ELSE "profile"

\* mutant: check_engagement, once the score is computed, completes the
\* metrics with 0.0 for the absent ones, in the entry of self.mock_data itself
EngagementInvoke_fill ==
    /\ pc = "engagement" /\ engW.pc = "running"
    /\ \E fault \in Faults, draw \in RandomMetrics, jitter \in JitterSet :
         LET out == check_engagement(engagement_checker, username, fault, draw, engW.calls + 1)
             w == WrapperAttempt(EvaluatorRetry, engW, out, jitter) IN
         /\ engW' = IF w.pc = "returned" THEN Finished(w) ELSE w
         /\ pc' = PcAfterEngagement(w)
         /\ engagement_result' = IF w.pc = "returned" THEN w.value ELSE engagement_result
         /\ profW' = IF pc' = "profile" THEN WrapperEnter(EvaluatorRetry) ELSE profW
         /\ exc' = IF w.pc = "raised" THEN w.error ELSE exc
         /\ engagement_checker' =
               IF out.tag = "return" /\ username \in DOMAIN engagement_checker.mock_data
               THEN [engagement_checker EXCEPT !.mock_data[username] =
                        [k \in DOMAIN AllMetrics(0) |-> IF k \in DOMAIN @ THEN @[k] ELSE 0]]
               ELSE engagement_checker
    /\ UNCHANGED <<harnessVars, profile_analyzer, batchVars, logVars, username,
                   profile_result, ret>>

\* the wrapper of check_engagement invokes it and handles the outcome
EngagementInvoke ==
    /\ pc = "engagement" /\ engW.pc = "running"
    /\ \E fault \in Faults, draw \in RandomMetrics, jitter \in JitterSet :
         LET out == check_engagement(engagement_checker, username, fault, draw, engW.calls + 1)
             w == WrapperAttempt(EvaluatorRetry, engW, out, jitter) IN
         /\ engW' = IF w.pc = "returned" THEN Finished(w) ELSE w
         /\ pc' = PcAfterEngagement(w)
         /\ engagement_result' = IF w.pc = "returned" THEN w.value ELSE engagement_result
         /\ profW' = IF pc' = "profile" THEN WrapperEnter(EvaluatorRetry) ELSE profW
         /\ exc' = IF w.pc = "raised" THEN w.error ELSE exc
    /\ UNCHANGED <<harnessVars, controllerVars, batchVars, logVars, username, profile_result, ret>>

EngagementWake ==
    /\ pc = "engagement" /\ engW.pc = "sleeping"
    /\ engW' = WrapperWake(engW)
    /\ UNCHANGED <<harnessVars, controllerVars, batchVars, logVars, pc, username, profW,
                   engagement_result, profile_result, ret, exc>>

\* the wrapper of analyze_profile invokes it and handles the outcome
ProfileInvoke ==
    /\ pc = "profile" /\ profW.pc = "running"
    /\ \E fault \in Faults, draw \in RandomProfiles, jitter \in JitterSet :
         LET out == analyze_profile(profile_analyzer, username, fault, draw, profW.calls + 1)
             w == WrapperAttempt(EvaluatorRetry, profW, out, jitter) IN
         /\ profW' = w
         /\ pc' = PcAfterProfile(w)
         /\ profile_result' = IF w.pc = "returned" THEN w.value ELSE profile_result
         /\ exc' = IF w.pc = "raised" THEN w.error ELSE exc
    /\ UNCHANGED <<harnessVars, controllerVars, batchVars, logVars, username, engW, engagement_result, ret>>

ProfileWake ==
    /\ pc = "profile" /\ profW.pc = "sleeping"
    /\ profW' = WrapperWake(profW)
    /\ UNCHANGED <<harnessVars, controllerVars, batchVars, logVars, pc, username, engW,
                   engagement_result, profile_result, ret, exc>>

\* audit_follower after both evaluators: decide, recommend, log, return
Decide ==
    /\ pc = "decide"
    /\ LET engagement_score == engagement_result.score
           risk_score == profile_result.risk_score
           action == _determine_action(engagement_score, risk_score)
           recommendations == _generate_recommendations(engagement_score, risk_score,
                                                        profile_result.analysis)
       IN IF JsonSerializable(username)
          THEN /\ logFile' = Emit(logFile, AuditLine(username, engagement_score, risk_score,
                                                     action, profile_result.analysis), handlers)
               /\ ret' = [username |-> username,
                          engagement_score |-> engagement_score,
                          risk_score |-> risk_score,
                          action |-> action,
                          reason |-> profile_result.analysis,
                          recommendations |-> recommendations]
               /\ pc' = "returned"
               /\ exc' = exc
          ELSE /\ exc' = [kind |-> "TypeError", id |-> 1, msg |-> "Object of type bytes is not JSON serializable"]
               /\ pc' = "except"
               /\ UNCHANGED <<logFile, ret>>
    /\ UNCHANGED <<harnessVars, controllerVars, batchVars, handlers, username, engW, profW,
                   engagement_result, profile_result>>

\* mutant: the except clause re-raises without logging
Except_silent ==
    /\ pc = "except"
    /\ pc' = "raised"
    /\ UNCHANGED <<harnessVars, controllerVars, batchVars, logVars, username, engW, profW,
                   engagement_result, profile_result, ret, exc>>

\* audit_follower's except clause: log_error(username, str(e)); raise
Except ==
    /\ pc = "except"
    /\ logFile' = Emit(logFile, ErrorLine(username, Str(exc)), handlers)
    /\ pc' = "raised"
    /\ UNCHANGED <<harnessVars, controllerVars, batchVars, handlers, username, engW, profW,
                   engagement_result, profile_result, ret, exc>>

\* mutant: the result is put at the head of the list
CollectResult_prepend ==
    /\ pc = "returned"
    /\ results' = <<ret>> \o results
    /\ idx' = idx + 1
    /\ AuditReset
    /\ UNCHANGED <<harnessVars, controllerVars, followers, shown, logVars>>

\* process_followers: results.append(result)
CollectResult ==
    /\ pc = "returned"
    /\ results' = Append(results, ret)
    /\ idx' = idx + 1
    /\ AuditReset
    /\ UNCHANGED <<harnessVars, controllerVars, followers, shown, logVars>>

\* mutant: the error leaves process_followers, which ends there
CollectError_abort ==
    /\ pc = "raised"
    /\ shown' = Append(shown, [title |-> GetUsername(followers[idx + 1]), details |-> Str(exc)])
    /\ pc' = "batch_done"
    /\ UNCHANGED <<harnessVars, controllerVars, followers, idx, results, logVars, username, engW, profW,
                   engagement_result, profile_result, ret, exc>>

\* process_followers: except Exception as e: error_message(...)
CollectError ==
    /\ pc = "raised"
    /\ shown' = Append(shown, [title |-> GetUsername(followers[idx + 1]), details |-> Str(exc)])
    /\ idx' = idx + 1
    /\ AuditReset
    /\ UNCHANGED <<harnessVars, controllerVars, followers, results, logVars>>

\* process_followers: return results
BatchReturn ==
    /\ pc = "idle" /\ idx = Len(followers)
    /\ pc' = "batch_done"
    /\ UNCHANGED <<harnessVars, controllerVars, batchVars, logVars, username, engW, profW,
                   engagement_result, profile_result, ret, exc>>

Next ==
    \/ NewWorkflowController
    \/ NewProfileAnalyzer
    \/ AuditStart
    \/ EngagementInvoke
    \/ EngagementWake
    \/ ProfileInvoke
    \/ ProfileWake
    \/ Decide
    \/ Except
    \/ CollectResult
    \/ CollectError
    \/ BatchReturn

Spec == Init /\ [][Next]_vars

\* the steps of process_followers and of the calls below it
Step ==
    \/ AuditStart
    \/ EngagementInvoke
    \/ EngagementWake
    \/ ProfileInvoke
    \/ ProfileWake
    \/ Decide
    \/ Except
    \/ CollectResult
    \/ CollectError
    \/ BatchReturn

\* one controller and a batch over three kinds of follower: one that is
\* evaluated, one whose score computation raises, one whose audit record
\* cannot be written
LiveFollowers == {f \in FollowerSet : f.username \in {"alice", "empty", "b'eve'"}}

LiveInit ==
    /\ RetryIdle
    /\ PureIdle
    /\ followers \in SeqsUpTo(LiveFollowers, MaxBatch)
    /\ PipelineIdle

\* the event loop runs the one coroutine until it completes
\* (asyncio.run(process_followers(...))), and every sleep completes
LiveNext == Step \/ NewWorkflowController \/ NewProfileAnalyzer

SpecLive == LiveInit /\ [][LiveNext]_vars /\ WF_vars(Step)

(***************************************************************************)
(* Retry harness: one call of a function decorated with async_retry, for   *)
(* each configuration of a small set, the wrapped function's outcome being *)
(* chosen freely at every invocation.                                      *)
(***************************************************************************)
ValOk == [val |-> "ok"]
ValBad == [val |-> "bad"]
HarnessValues == {ValOk, ValBad, None}
HarnessKinds == {"ConnectionError", "ValueError"}

RetryConfigs ==
    [max_attempts : 1..MaxAttemptsBound,
     base_delay : {Tenths(1)},
     max_delay : {25},
     exceptions : {{"Exception"}, {"ConnectionError"}},
     on_retry : {"absent", "returns", "raises"},
     has_retry_on_result : BOOLEAN,
     retry_on_result : {{ValBad}, {ValBad, None}},
     has_retry_on_exception : BOOLEAN,
     retry_on_exception : {{"ConnectionError"}, {"ConnectionError", "ValueError"}}]

\* what the wrapped function can do at its n-th invocation
HarnessOutcomes(n) ==
    {Returns(v) : v \in HarnessValues} \cup {Raises(k, n, "boom") : k \in HarnessKinds}

RetryInit ==
    /\ rcfg \in RetryConfigs
    /\ rw = IdleFrame
    /\ rhistory = << >>
    /\ PureIdle
    /\ followers = << >>
    /\ PipelineIdle

\* the decorated function is called
RetryCall ==
    /\ rw.pc = "idle"
    /\ rw' = WrapperEnter(rcfg)
    /\ UNCHANGED <<rcfg, rhistory, pureVars, pipelineVars>>

\* the wrapper invokes func and handles its outcome
RetryInvoke ==
    /\ rw.pc = "running"
    /\ \E out \in HarnessOutcomes(rw.calls + 1), jitter \in JitterSet :
          /\ rw' = WrapperAttempt(rcfg, rw, out, jitter)
          /\ rhistory' = Append(rhistory, out)
    /\ UNCHANGED <<rcfg, pureVars, pipelineVars>>

\* the backoff sleep completes
RetryWake ==
    /\ rw.pc = "sleeping"
    /\ rw' = WrapperWake(rw)
    /\ UNCHANGED <<rcfg, rhistory, pureVars, pipelineVars>>

RetryNext == RetryCall \/ RetryInvoke \/ RetryWake

SpecRetry == RetryInit /\ [][RetryNext]_vars

(***************************************************************************)
(* Decision harness: _determine_action applied to every pair of scores of  *)
(* a grid of hundredths of [0, 1].                                         *)
(***************************************************************************)
ScoreGrid == {Pct(h) : h \in 0..100}

DecideInit ==
    /\ dec \in [pc : {"input"}, engagement_score : ScoreGrid, risk_score : ScoreGrid,
                action : {""}]
    /\ RetryIdle
    /\ followers = << >>
    /\ PipelineIdle

DecideCall ==
    /\ dec.pc = "input"
    /\ dec' = [dec EXCEPT !.pc = "decided",
                          !.action = _determine_action(dec.engagement_score, dec.risk_score)]
    /\ UNCHANGED <<retryVars, pipelineVars>>

DecideNext == DecideCall

SpecDecide == DecideInit /\ [][DecideNext]_vars

(***************************************************************************)
(* Score harness: the score computation of check_engagement applied to     *)
(* every metrics mapping over a subset of the four metric names with       *)
(* values of a small grid of [0, 1].                                       *)
(***************************************************************************)
MetricNames == {"likes", "comments", "shares", "saves"}
MetricValues == {Pct(0), Pct(30), Pct(50), Pct(100)}
MetricMappings == UNION {[present -> MetricValues] : present \in SUBSET MetricNames}

ScoreInit ==
    /\ dec \in [pc : {"input"}, metrics : MetricMappings, out : {Returns(None)}]
    /\ RetryIdle
    /\ followers = << >>
    /\ PipelineIdle

ScoreCall ==
    /\ dec.pc = "input"
    /\ dec' = [dec EXCEPT !.pc = "scored", !.out = engagement_result_of(dec.metrics, 1)]
    /\ UNCHANGED <<retryVars, pipelineVars>>

ScoreNext == ScoreCall

SpecScore == ScoreInit /\ [][ScoreNext]_vars

(***************************************************************************)
(* Recommendation harness: _determine_action and _generate_recommendations *)
(* applied, as audit_follower applies them, to every pair of scores of the *)
(* grid and a few analysis texts.                                          *)
(***************************************************************************)
\* "User account is currently Inactive"
TextInactive ==
    <<"U","s","e","r"," ","a","c","c","o","u","n","t"," ","i","s"," ","c","u","r","r",
      "e","n","t","l","y"," ","I","n","a","c","t","i","v","e">>
\* "PRIVATE account"
TextPrivate == <<"P","R","I","V","A","T","E"," ","a","c","c","o","u","n","t">>
\* "Private, inActive"
TextBoth == <<"P","r","i","v","a","t","e",","," ","i","n","A","c","t","i","v","e">>
\* "priv. act."
TextNear == <<"p","r","i","v","."," ","a","c","t",".">>
AnalysisTexts == {TextInactive, TextPrivate, TextBoth, TextNear, DefaultAnalysis}

RecommendInit ==
    /\ dec \in [pc : {"input"}, engagement_score : ScoreGrid, risk_score : ScoreGrid,
                analysis : AnalysisTexts, action : {""}, recommendations : {<< >>}]
    /\ RetryIdle
    /\ followers = << >>
    /\ PipelineIdle

RecommendCall ==
    /\ dec.pc = "input"
    /\ dec' = [dec EXCEPT !.pc = "recommended",
                          !.action = _determine_action(dec.engagement_score, dec.risk_score),
                          !.recommendations =
                              _generate_recommendations(dec.engagement_score, dec.risk_score,
                                                        dec.analysis)]
    /\ UNCHANGED <<retryVars, pipelineVars>>

RecommendNext == RecommendCall

SpecRecommend == RecommendInit /\ [][RecommendNext]_vars

(***************************************************************************)
(* Risk harness: the stand-alone analyzer of app/core/analyzer.py.  Its    *)
(* metrics are in units of 1/ONE; the risk score it returns is in units of *)
(* 1/(ONE * ONE), in which the mean of the weighted terms is exact.        *)
(***************************************************************************)
\* self.weights of the analyzer
RiskWeights ==
    [activity |-> Pct(30), content |-> Pct(30), interaction |-> Pct(20), age |-> Pct(20)]

\* the dummy ProfileMetrics _gather_metrics returns for every profile
_gather_metrics(profile_id) ==
    [authenticity_score |-> Pct(50), engagement_potential |-> Pct(60),
     risk_level |-> Pct(40), interaction_pattern |-> Pct(80), account_age |-> Pct(90)]

\* np.mean of the five weighted terms
_calculate_risk_score(metrics) ==
    (metrics.authenticity_score * RiskWeights.activity
     + metrics.engagement_potential * RiskWeights.content
     + metrics.risk_level * RiskWeights.interaction
     + metrics.interaction_pattern * RiskWeights.interaction
     + metrics.account_age * RiskWeights.age) \div 5

analyze_profile_risk(profile_id) == _calculate_risk_score(_gather_metrics(profile_id))

ProfileIds == {"alice", "bob"}
SignalValues == {Pct(0), Pct(50), Pct(100)}
ProfileMetricsSet ==
    [authenticity_score : SignalValues, engagement_potential : SignalValues,
     risk_level : SignalValues, interaction_pattern : SignalValues,
     account_age : SignalValues]

\* either a profile id for analyze_profile_risk, or metrics for
\* _calculate_risk_score
RiskInit ==
    /\ dec \in [pc : {"profile"}, profile_id : ProfileIds,
                metrics : {_gather_metrics(p) : p \in ProfileIds}, risk : {0}]
             \cup [pc : {"metrics"}, profile_id : {""}, metrics : ProfileMetricsSet,
                   risk : {0}]
    /\ RetryIdle
    /\ followers = << >>
    /\ PipelineIdle

AnalyzeRiskCall ==
    /\ dec.pc = "profile"
    /\ dec' = [dec EXCEPT !.pc = "risk", !.risk = analyze_profile_risk(dec.profile_id)]
    /\ UNCHANGED <<retryVars, pipelineVars>>

CalculateRiskCall ==
    /\ dec.pc = "metrics"
    /\ dec' = [dec EXCEPT !.pc = "risk", !.risk = _calculate_risk_score(dec.metrics)]
    /\ UNCHANGED <<retryVars, pipelineVars>>

RiskNext == AnalyzeRiskCall \/ CalculateRiskCall

SpecRisk == RiskInit /\ [][RiskNext]_vars

(***************************************************************************)
(* Properties.                                                             *)
(***************************************************************************)
\* number of lines of a kind in the log file
RECURSIVE CountKind(_, _)
CountKind(file, kind) ==
    IF file = << >> THEN 0
    ELSE (IF file[1].kind = kind THEN 1 ELSE 0) + CountKind(Tail(file), kind)

\* number of entries of a sequence of records whose field `f` is `u`
RECURSIVE CountUser(_, _, _)
CountUser(q, f, u) ==
    IF q = << >> THEN 0
    ELSE (IF q[1][f] = u THEN 1 ELSE 0) + CountUser(Tail(q), f, u)

\* C1: for every pair of scores in [0,1] x [0,1] the action is the one of the
\* four branches taken in order with inclusive comparisons: KEEP if
\* engagement >= 0.7 and risk <= 0.3; else MONITOR if engagement >= 0.5 and
\* risk <= 0.5; else REMOVE if engagement <= 0.3 or risk >= 0.7; else MONITOR;
\* with the five named points decided as stated.
C1_DecisionTable ==
    dec.pc = "decided" =>
        LET e == dec.engagement_score
            r == dec.risk_score
            a == dec.action
            b1 == e >= Pct(70) /\ r <= Pct(30)
            b2 == e >= Pct(50) /\ r <= Pct(50)
            b3 == e <= Pct(30) \/ r >= Pct(70)
        IN /\ b1 => a = KEEP
           /\ (~b1 /\ b2) => a = MONITOR
           /\ (~b1 /\ ~b2 /\ b3) => a = REMOVE
           /\ (~b1 /\ ~b2 /\ ~b3) => a = MONITOR
           /\ (e = Pct(70) /\ r = Pct(30)) => a = KEEP
           /\ (e = Pct(69) /\ r = Pct(30)) => a = MONITOR
           /\ (e = Pct(20) /\ r = Pct(20)) => a = REMOVE
           /\ (e = Pct(60) /\ r = Pct(80)) => a = REMOVE
           /\ (e = Pct(60) /\ r = Pct(60)) => a = MONITOR

C1_Witness ==
    /\ dec.pc = "decided"
    /\ dec.engagement_score = Pct(70) /\ dec.risk_score = Pct(30)
    /\ dec.action = KEEP

InFlight(w) == w.pc \in {"running", "sleeping"}

\* C2: within one audit_follower call the profile evaluator is invoked only
\* after the engagement evaluator, retries included, has returned
\* successfully, and the two are never in flight together.
C2_EngagementBeforeProfile ==
    /\ ~(InFlight(engW) /\ InFlight(profW))
    /\ (profW.pc # "idle" \/ profW.calls > 0) =>
           /\ engW.pc = "returned"
           /\ engagement_result = engW.value
    /\ engW.pc = "raised" => (profW.pc = "idle" /\ profW.calls = 0)
    /\ InFlight(engW) => (profW.pc = "idle" /\ profW.calls = 0)

C2_Witness ==
    /\ pc = "profile" /\ profW.pc = "sleeping" /\ profW.calls = 2
    /\ engW.pc = "returned"

\* C3: when an evaluator raises out of its retry wrapper, audit_follower has
\* logged an error line carrying the username by the time it raises, raises
\* that same error, returns nothing, and has written no audit line for the
\* follower: the error line is the last of the file, error lines are only
\* written by the step that raises, and audit lines only by a step that
\* returns.
C3_EvaluatorFailure ==
    /\ [](/\ (pc = "raised" /\ (engW.pc = "raised" \/ profW.pc = "raised"))
             => /\ exc = (IF engW.pc = "raised" THEN engW.error ELSE profW.error)
                /\ ret = NoResult
                /\ Len(logFile) >= 1
                /\ logFile[Len(logFile)] = ErrorLine(username, Str(exc))
                /\ CountKind(logFile, "error") >= Len(shown) + 1
          /\ pc \in {"engagement", "profile", "decide", "except"} => ret = NoResult)
    /\ [][/\ CountKind(logFile', "audit") # CountKind(logFile, "audit")
             => (pc = "decide" /\ pc' = "returned")
          /\ CountKind(logFile', "error") # CountKind(logFile, "error")
             => /\ pc = "except" /\ pc' = "raised"
                /\ \E k \in 1..handlers :
                      logFile' = logFile \o [i \in 1..k |-> ErrorLine(username, Str(exc))]
          /\ pc' = "raised" => (pc \in {"except", "raised"})
          /\ (pc = "except" /\ pc' = "raised") => Len(logFile') > Len(logFile)]_vars

C3_Witness ==
    /\ pc = "raised" /\ profW.pc = "raised" /\ profW.calls = 3
    /\ engagement_result # NoEngagement
    /\ username = "alice"

\* C4: when both evaluators succeeded and log_audit raises, audit_follower
\* still returns the result instead of raising.
C4_LogFailureDoesNotFail ==
    (engW.pc = "returned" /\ profW.pc = "returned") => pc \in {"decide", "returned"}

\* C5: whatever followers of a batch fail, every follower is evaluated and
\* every follower that did not fail has its result in the list returned: an
\* error neither stops the loop nor removes results.
C5_BatchIsolation ==
    /\ idx <= Len(followers)
    /\ pc = "batch_done" => idx = Len(followers)
    /\ Len(results) + Len(shown) = idx
    /\ \A u \in {GetUsername(f) : f \in FollowerSet} :
           CountUser(results, "username", u) + CountUser(shown, "title", u)
               = CountUser(SubSeq(followers, 1, idx), "username",
                           IF u = "Unknown" THEN Missing ELSE u)

C5_Witness ==
    /\ pc = "batch_done" /\ Len(followers) = 3
    /\ followers[2].username = "empty"
    /\ Len(shown) = 1 /\ shown[1].title = "empty"
    /\ Len(results) = 2
    /\ results[1].username = "alice" /\ results[2].username = "bob"

\* C6: the list process_followers returns has one entry per follower of the
\* batch, so its length is the batch size.
C6_OneEntryPerFollower ==
    pc = "batch_done" => Len(results) = Len(followers)

\* C7: each evaluation that returns appends exactly one record to the audit
\* log, however many controllers were constructed before.
C7_OneRecordPerEvaluation ==
    CountKind(logFile, "audit") = Len(results) + (IF pc = "returned" THEN 1 ELSE 0)

RetryableAt(i) ==
    /\ rhistory[i].tag = "raise"
    /\ Catches(rcfg.exceptions, rhistory[i].error.kind)
    /\ ~(rcfg.has_retry_on_exception /\ rhistory[i].error.kind \notin rcfg.retry_on_exception)

Flagged(v) == rcfg.has_retry_on_result /\ v \in rcfg.retry_on_result

\* C8: with max_attempts = n, when func raised a retryable error on its first
\* k attempts (k < n) and then returned a value no result condition flags,
\* the wrapper returns that value at once after k + 1 invocations, k sleeps
\* and k on_retry calls; a retryable error before the last attempt is retried.
C8_SuccessAfterRetries ==
    LET m == Len(rhistory) IN
    /\ (/\ m >= 1
        /\ rhistory[m].tag = "return" /\ ~Flagged(rhistory[m].value)
        /\ \A i \in 1..(m - 1) : rhistory[i].tag = "raise")
       => /\ m <= rcfg.max_attempts
          /\ rw.pc = "returned"
          /\ rw.value = rhistory[m].value
          /\ rw.calls = m
          /\ rw.sleeps = m - 1
          /\ rw.sleep = 0
          /\ Len(rw.callbacks) = (IF rcfg.on_retry = "absent" THEN 0 ELSE m - 1)
    /\ (m >= 1 /\ m < rcfg.max_attempts /\ RetryableAt(m))
       => rw.pc \in {"sleeping", "running"}

C8_Witness ==
    /\ rcfg.max_attempts = 3 /\ rcfg.on_retry = "returns"
    /\ Len(rhistory) = 3
    /\ rhistory[1].tag = "raise" /\ rhistory[2].tag = "raise"
    /\ rhistory[3] = Returns(ValOk)
    /\ rw.pc = "returned" /\ rw.value = ValOk
    /\ rw.calls = 3 /\ Len(rw.callbacks) = 2

\* C9: when each of the max_attempts invocations raised a retryable error,
\* the wrapper raises the error of the last invocation after exactly
\* max_attempts invocations.
C9_LastErrorRaised ==
    LET m == Len(rhistory) IN
    (/\ m = rcfg.max_attempts
     /\ \A i \in 1..m : RetryableAt(i))
    => /\ rw.pc = "raised"
       /\ rw.error = rhistory[m].error
       /\ rw.error.id = rcfg.max_attempts
       /\ rw.calls = rcfg.max_attempts

C9_Witness ==
    /\ rcfg.max_attempts = 3 /\ Len(rhistory) = 3
    /\ \A i \in 1..3 : RetryableAt(i)
    /\ rw.pc = "raised" /\ rw.error.id = 3 /\ rw.calls = 3

\* C10: an error whose class is not among the configured exceptions leaves
\* the wrapper on the attempt where it occurs: no sleep and no on_retry call
\* for it, no further invocation; on the first attempt func has been invoked
\* exactly once.
C10_NonRetryablePropagates ==
    LET m == Len(rhistory) IN
    (/\ m >= 1
     /\ rhistory[m].tag = "raise"
     /\ ~(\E cls \in rcfg.exceptions : IsInstance(rhistory[m].error.kind, cls)))
    => /\ rw.pc = "raised"
       /\ rw.error = rhistory[m].error
       /\ rw.calls = m
       /\ rw.sleeps = m - 1
       /\ rw.sleep = 0
       /\ \A j \in 1..Len(rw.callbacks) : rw.callbacks[j].error # rhistory[m].error
       /\ m = 1 => (rw.calls = 1 /\ rw.sleeps = 0 /\ rw.callbacks = << >>)

C10_Witness ==
    /\ Len(rhistory) = 1
    /\ rhistory[1].tag = "raise" /\ rhistory[1].error.kind = "ValueError"
    /\ rcfg.exceptions = {"ConnectionError"} /\ rcfg.on_retry = "returns"
    /\ rcfg.max_attempts = 3
    /\ rw.pc = "raised" /\ rw.calls = 1 /\ rw.sleeps = 0


\* func's i-th invocation raised an error that `except exceptions` catches
\* and retry_on_exception rejects
RejectedAt(i) ==
    /\ rhistory[i].tag = "raise"
    /\ Catches(rcfg.exceptions, rhistory[i].error.kind)
    /\ rcfg.has_retry_on_exception
    /\ rhistory[i].error.kind \notin rcfg.retry_on_exception

\* C11: when func raises a caught error that retry_on_exception rejects, the
\* wrapper raises that error on that attempt: it is the last invocation, no
\* sleep follows it and on_retry is not called for it, however many attempts
\* remain.
C11_RejectedRaisesAtOnce ==
    \A i \in 1..Len(rhistory) :
        RejectedAt(i)
        => /\ i = Len(rhistory)
           /\ rw.pc = "raised"
           /\ rw.error = rhistory[i].error
           /\ rw.calls = i
           /\ rw.sleeps = i - 1
           /\ rw.sleep = 0
           /\ \A j \in 1..Len(rw.callbacks) : rw.callbacks[j].attempt # i

C11_Witness ==
    /\ rcfg.max_attempts = 3 /\ rcfg.on_retry = "returns"
    /\ rcfg.exceptions = {"Exception"}
    /\ Len(rhistory) = 1 /\ RejectedAt(1)
    /\ rw.pc = "raised" /\ rw.calls = 1 /\ rw.sleeps = 0 /\ rw.callbacks = << >>

\* C12: when the result of each of the max_attempts invocations is flagged by
\* retry_on_result, the wrapper sleeps after every attempt but the last and
\* then returns the result of the last invocation.
C12_FlaggedResultsExhausted ==
    LET m == Len(rhistory) IN
    (/\ m >= 1
     /\ \A i \in 1..m : rhistory[i].tag = "return" /\ Flagged(rhistory[i].value))
    => IF m = rcfg.max_attempts
       THEN /\ rw.pc = "returned"
            /\ rw.value = rhistory[m].value
            /\ rw.calls = m
            /\ rw.sleeps = m - 1
            /\ rw.sleep = 0
       ELSE /\ m < rcfg.max_attempts
            /\ rw.sleeps = m
            /\ \/ rw.pc = "sleeping" /\ rw.attempt = m - 1 /\ rw.sleep > 0
               \/ rw.pc = "running" /\ rw.attempt = m

C12_Witness ==
    /\ rcfg.max_attempts = 3 /\ rcfg.has_retry_on_result
    /\ rhistory = <<Returns(ValBad), Returns(None), Returns(ValBad)>>
    /\ Flagged(None)
    /\ rw.pc = "returned" /\ rw.value = ValBad /\ rw.sleeps = 2

\* C13: on_retry is called with the error func raised and the 1-based number
\* of the attempt that raised it; when the callback itself raises, the
\* wrapper still sleeps and goes on, an unflagged result is still returned,
\* and whatever the wrapper raises is an error func raised.
C13_CallbackErrorsSwallowed ==
    LET m == Len(rhistory) IN
    /\ \A j \in 1..Len(rw.callbacks) :
          LET c == rw.callbacks[j] IN
          /\ c.attempt \in 1..m
          /\ rhistory[c.attempt].tag = "raise"
          /\ c.error = rhistory[c.attempt].error
          /\ rw.sleeps >= j
    /\ rcfg.on_retry = "raises"
       => /\ rw.callback_errors = Len(rw.callbacks)
          /\ rw.pc = "raised" => \E i \in 1..m : /\ rhistory[i].tag = "raise"
                                                 /\ rw.error = rhistory[i].error
          /\ (m >= 1 /\ m < rcfg.max_attempts /\ RetryableAt(m))
             => /\ rw.callbacks[Len(rw.callbacks)].attempt = m
                /\ rw.sleeps = m
                /\ \/ rw.pc = "sleeping" /\ rw.attempt = m - 1
                   \/ rw.pc = "running" /\ rw.attempt = m
          /\ (m >= 1 /\ rhistory[m].tag = "return" /\ ~Flagged(rhistory[m].value))
             => rw.pc = "returned" /\ rw.value = rhistory[m].value

C13_Witness ==
    /\ rcfg.on_retry = "raises" /\ rcfg.max_attempts = 3
    /\ Len(rhistory) = 3
    /\ rhistory[1].tag = "raise" /\ rhistory[2].tag = "raise"
    /\ rhistory[3] = Returns(ValOk)
    /\ rw.callback_errors = 2
    /\ rw.callbacks[1].attempt = 1 /\ rw.callbacks[2].attempt = 2
    /\ rw.pc = "returned" /\ rw.value = ValOk /\ rw.sleeps = 2

\* C14: a backoff sleep after the failed attempt of 0-based index a lasts
\* min(base_delay * 2^a + jitter, max_delay) for a jitter of at most one
\* second: never more than max_delay, never less than
\* min(base_delay * 2^a, max_delay).
C14_DelayFormula ==
    rw.pc = "sleeping"
    => LET a == rw.attempt
           backoff == rcfg.base_delay * (2 ^ a) IN
       /\ \E jitter \in 0..Tenths(1) :
             rw.sleep = (IF backoff + jitter <= rcfg.max_delay
                         THEN backoff + jitter ELSE rcfg.max_delay)
       /\ rw.sleep <= rcfg.max_delay
       /\ rw.sleep >= (IF backoff <= rcfg.max_delay THEN backoff ELSE rcfg.max_delay)

C14_Witness ==
    /\ rw.pc = "sleeping" /\ rw.attempt = 1
    /\ rw.sleep = rcfg.max_delay
    /\ rcfg.base_delay * 2 < rcfg.max_delay


\* C15 (retry part): an evaluator's wrapper makes at most 3 invocations, a
\* wrapper still in flight has only seen failures, and when it raises a
\* connectivity-class error it has made exactly 3 invocations and 2 sleeps and
\* raises the error of the third; the follower then has no result, audit
\* lines are at most one per handler and result, and the batch goes on.
C15_RetriedThenFailed ==
    /\ \A w \in {engW, profW} :
          /\ w.calls <= EvaluatorRetry.max_attempts
          /\ InFlight(w) => /\ w.calls < EvaluatorRetry.max_attempts
                            /\ w.sleeps = w.attempt + (IF w.pc = "sleeping" THEN 1 ELSE 0)
                            /\ w.calls = w.sleeps
          /\ (w.pc = "raised" /\ w.error.kind \in EvaluatorRetry.exceptions)
             => /\ w.calls = EvaluatorRetry.max_attempts
                /\ w.sleeps = EvaluatorRetry.max_attempts - 1
                /\ w.error.id = EvaluatorRetry.max_attempts
    /\ pc \in {"except", "raised"} => ret = NoResult
    /\ CountKind(logFile, "audit") >= Len(results) + (IF pc = "returned" THEN 1 ELSE 0)
    /\ CountKind(logFile, "audit")
          <= handlers * (Len(results) + (IF pc = "returned" THEN 1 ELSE 0))
    /\ Len(results) + Len(shown) = idx

\* C15: an evaluator failing with a connectivity-class error on every call
\* is invoked exactly 3 times, after which the follower's evaluation fails
\* without a result, the error is logged once for that follower, and the
\* batch goes on with the next follower.
C15_TerminalFailureLoggedOnce ==
    /\ C15_RetriedThenFailed
    /\ CountKind(logFile, "error") = Len(shown) + (IF pc = "raised" THEN 1 ELSE 0)

\* C16: a follower record without a username is never evaluated: it gets no
\* result and no audit line, and its failure involves no retry.
C16_MissingUsernameRejected ==
    /\ \A i \in 1..Len(results) : results[i].username # GetUsername([username |-> Missing])
    /\ \A i \in 1..Len(logFile) :
          logFile[i].kind = "audit" => logFile[i].username # GetUsername([username |-> Missing])
    /\ (pc \notin {"idle", "batch_done"} /\ followers[idx + 1].username = Missing)
       => /\ ret = NoResult
          /\ engW.sleeps = 0 /\ profW.sleeps = 0


\* C17: on an empty metrics mapping the score computation returns a result
\* with score 0 and raises nothing.
C17_EmptyMetricsScoreZero ==
    (dec.pc = "scored" /\ DOMAIN dec.metrics = {})
    => /\ dec.out.tag = "return"
       /\ dec.out.value.score = 0

\* the value of a metric in a mapping, 0 when the metric is absent
MetricOrZero(m, k) == IF k \in DOMAIN m THEN m[k] ELSE 0

\* C18: on a non-empty metrics mapping with values in [0, 1] the score is the
\* sum of the present values divided by their number, and lies in [0, 1].
C18_ScoreIsMean ==
    (dec.pc = "scored" /\ DOMAIN dec.metrics # {})
    => LET m == dec.metrics
           total == MetricOrZero(m, "likes") + MetricOrZero(m, "comments")
                    + MetricOrZero(m, "shares") + MetricOrZero(m, "saves")
       IN /\ dec.out.tag = "return"
          /\ dec.out.value.score * Cardinality(DOMAIN m) = total
          /\ dec.out.value.score >= 0
          /\ dec.out.value.score <= ONE
          /\ dec.out.value.metrics = m

C18_Witness ==
    /\ dec.pc = "scored"
    /\ DOMAIN dec.metrics = {"likes", "saves"}
    /\ dec.metrics["likes"] = Pct(100) /\ dec.metrics["saves"] = Pct(50)
    /\ dec.out.tag = "return"
    /\ dec.out.value.score = Pct(75)

\* place of a notice in the fixed order
NoticeRank(n) ==
    IF n = LowEngagementNotice THEN 1 ELSE IF n = HighRiskNotice THEN 2
    ELSE IF n = PrivateNotice THEN 3 ELSE IF n = InactiveNotice THEN 4 ELSE 0

\* C19: the recommendation list holds exactly the notices whose condition
\* holds (engagement < 0.5; risk > 0.5; "private" in the text, any case;
\* "inactive" in the text, any case), each once, in that order, every
\* condition counting on its own; engagement 0.2, risk 0.6 and "User account
\* is currently Inactive" give [low-engagement, high-risk, inactivity].
C19_RecommendationsExact ==
    dec.pc = "recommended" =>
        LET e == dec.engagement_score
            r == dec.risk_score
            t == dec.analysis
            recs == dec.recommendations
            Has(n) == \E i \in 1..Len(recs) : recs[i] = n
        IN /\ Has(LowEngagementNotice) <=> e < Pct(50)
           /\ Has(HighRiskNotice) <=> r > Pct(50)
           /\ Has(PrivateNotice) <=> t \in {TextPrivate, TextBoth}
           /\ Has(InactiveNotice) <=> t \in {TextInactive, TextBoth}
           /\ \A i \in 1..Len(recs) : NoticeRank(recs[i]) > 0
           /\ \A i, j \in 1..Len(recs) : i < j => NoticeRank(recs[i]) < NoticeRank(recs[j])
           /\ (e = Pct(20) /\ r = Pct(60) /\ t = TextInactive)
              => recs = <<LowEngagementNotice, HighRiskNotice, InactiveNotice>>

C19_Witness ==
    /\ dec.pc = "recommended"
    /\ dec.engagement_score = Pct(20) /\ dec.risk_score = Pct(60)
    /\ dec.analysis = TextInactive
    /\ dec.recommendations = <<LowEngagementNotice, HighRiskNotice, InactiveNotice>>


\* the results audit_follower has returned so far in the batch
Returned == results \o (IF pc = "returned" THEN <<ret>> ELSE << >>)

\* followers both evaluators have an entry for in their mock_data: they are
\* answered from it, without a random draw
Deterministic(u) ==
    /\ u \in DOMAIN engagement_checker.mock_data
    /\ u \in DOMAIN profile_analyzer.mock_data

\* C20: two audit_follower calls on the same follower record, with evaluators
\* that answer the same for the same input, return equal results (username,
\* both scores, action, reason, recommendations) whatever was evaluated in
\* between: for a follower the evaluators answer from their mock data, every
\* result of the batch is the same, and for any follower two results made
\* from the same evaluator answers (scores and analysis) are the same.  Two
\* results with equal scores have the same action, whoever the follower.
C20_Determinism ==
    \A i, j \in 1..Len(Returned) :
        LET a == Returned[i]
            b == Returned[j]
        IN /\ (a.username = b.username /\ Deterministic(a.username)) => a = b
           /\ (/\ a.username = b.username
               /\ a.engagement_score = b.engagement_score
               /\ a.risk_score = b.risk_score
               /\ a.reason = b.reason) => a = b
           /\ (a.engagement_score = b.engagement_score /\ a.risk_score = b.risk_score)
              => a.action = b.action

C20_Witness ==
    /\ Len(followers) = 3 /\ pc = "returned"
    /\ followers[1].username = "bob" /\ followers[3].username = "bob"
    /\ followers[2].username = "alice"
    /\ handlers = 2
    /\ Len(results) = 2
    /\ results[1].username = "bob" /\ results[2].username = "alice"
    /\ ret = results[1]


\* the entries of q at the positions where mask has the value keep, in order
RECURSIVE Pick(_, _, _)
Pick(q, mask, keep) ==
    IF q = << >> THEN << >>
    ELSE (IF mask[1] = keep THEN <<q[1]>> ELSE << >>) \o Pick(Tail(q), Tail(mask), keep)

\* C21: the results process_followers returns are in the order of their
\* followers in the batch: the followers dealt with split, in order, into
\* those with a result and those with an error report.
C21_OrderPreserved ==
    LET done == [i \in 1..idx |-> GetUsername(followers[i])]
        names == [i \in 1..Len(results) |-> results[i].username]
        titles == [i \in 1..Len(shown) |-> shown[i].title]
    IN \E mask \in [1..idx -> BOOLEAN] :
          /\ Pick(done, mask, TRUE) = names
          /\ Pick(done, mask, FALSE) = titles

C21_Witness ==
    /\ pc = "batch_done" /\ Len(followers) = 3
    /\ followers[1].username = "bob" /\ followers[2].username = "empty"
    /\ followers[3].username = "alice"
    /\ Len(results) = 2
    /\ results[1].username = "bob" /\ results[2].username = "alice"


\* C22: the risk score is the weighted mean of the four sub-signals activity,
\* content, interaction pattern and account age with weights 0.30, 0.30,
\* 0.20, 0.20: the sum of weight times signal, which is 1 when every
\* sub-signal is 1.
C22_RiskIsWeightedMean ==
    dec.pc = "risk"
    => LET m == dec.metrics IN
       /\ dec.risk = m.authenticity_score * Pct(30) + m.engagement_potential * Pct(30)
                     + m.interaction_pattern * Pct(20) + m.account_age * Pct(20)
       /\ (\A f \in DOMAIN m : m[f] = ONE) => dec.risk = ONE * ONE


\* the wrapper call has ended
Ended(w) == w.pc \in {"returned", "raised"}

\* C23: the wrapper raises only when its last invocation of func raised: when
\* the last invocation returned a value, flagged or not, None or not, the
\* wrapper returns that value, whatever earlier attempts raised.
C23_RaisesOnlyIfLastRaised ==
    LET m == Len(rhistory) IN
    (Ended(rw) /\ m >= 1 /\ rhistory[m].tag = "return")
    => /\ rw.pc = "returned"
       /\ rw.value = rhistory[m].value

\* C24: func is invoked at most max_attempts times and the wrapper sleeps at
\* most max_attempts - 1 times; after the attempt number max_attempts the
\* call has ended without a sleep or an on_retry call for that attempt; and
\* on_retry is only ever called for an attempt that raised.
C24_AttemptAndSleepBounds ==
    LET m == Len(rhistory) IN
    /\ rw.calls = m
    /\ rw.calls <= rcfg.max_attempts
    /\ rw.sleeps <= rcfg.max_attempts - 1
    /\ rw.sleeps <= rw.calls
    /\ Ended(rw) => rw.sleeps = rw.calls - 1
    /\ m = rcfg.max_attempts
       => /\ Ended(rw)
          /\ rw.sleep = 0
          /\ \A j \in 1..Len(rw.callbacks) : rw.callbacks[j].attempt < rcfg.max_attempts
    /\ \A j \in 1..Len(rw.callbacks) :
          /\ rw.callbacks[j].attempt \in 1..m
          /\ rhistory[rw.callbacks[j].attempt].tag = "raise"
    /\ Len(rw.callbacks) <= Cardinality({i \in 1..m : rhistory[i].tag = "raise"})

C24_Witness ==
    /\ rcfg.max_attempts = 3 /\ rcfg.on_retry = "returns" /\ rcfg.has_retry_on_result
    /\ Len(rhistory) = 3
    /\ rhistory[1] = Returns(ValBad)
    /\ rhistory[2].tag = "raise"
    /\ rhistory[3] = Returns(ValOk)
    /\ rw.pc = "returned" /\ rw.calls = 3 /\ rw.sleeps = 2
    /\ Len(rw.callbacks) = 1 /\ rw.callbacks[1].attempt = 2

\* C25: the order of the branches of _determine_action does not matter: the
\* action is REMOVE exactly when engagement <= 0.3 or risk >= 0.7, KEEP
\* exactly when engagement >= 0.7 and risk <= 0.3, MONITOR otherwise; the
\* KEEP and REMOVE conditions exclude each other and the second branch
\* never takes a pair that satisfies the REMOVE condition.
C25_BranchOrderIrrelevant ==
    dec.pc = "decided" =>
        LET e == dec.engagement_score
            r == dec.risk_score
            keep == e >= Pct(70) /\ r <= Pct(30)
            second == e >= Pct(50) /\ r <= Pct(50)
            remove == e <= Pct(30) \/ r >= Pct(70)
        IN /\ dec.action = REMOVE <=> remove
           /\ dec.action = KEEP <=> keep
           /\ dec.action = MONITOR <=> (~keep /\ ~remove)
           /\ ~(keep /\ remove)
           /\ ~(second /\ remove)

C25_Witness ==
    /\ dec.pc = "decided"
    /\ dec.engagement_score = Pct(30) /\ dec.risk_score = Pct(50)
    /\ dec.action = REMOVE


\* whether a list of recommendations holds a notice
HasNotice(recs, n) == \E i \in 1..Len(recs) : recs[i] = n

\* action and recommendations of one result are consistent
Consistent(action, recs) ==
    /\ action = REMOVE
       => (HasNotice(recs, LowEngagementNotice) \/ HasNotice(recs, HighRiskNotice))
    /\ action = KEEP
       => (~HasNotice(recs, LowEngagementNotice) /\ ~HasNotice(recs, HighRiskNotice))

\* C26: in every result of audit_follower, action "remove" comes with the
\* low-engagement or the high-risk notice, and action "keep" with neither:
\* for the action and the list computed from any pair of scores, and for
\* every result of a batch.
C26_ActionMatchesRecommendations ==
    /\ dec.pc = "recommended" => Consistent(dec.action, dec.recommendations)
    /\ \A i \in 1..Len(Returned) :
          Consistent(Returned[i].action, Returned[i].recommendations)

C26_Witness ==
    /\ dec.pc = "recommended"
    /\ dec.engagement_score = Pct(30) /\ dec.risk_score = Pct(40)
    /\ dec.action = REMOVE
    /\ dec.recommendations = <<LowEngagementNotice>>

\* C27: when audit_follower returns, the audit record of the evaluation is
\* already in the log and carries the username, both scores, the action and
\* the reason of the returned result, and that action is _determine_action of
\* the two scores of the result: the step that returns appends one such
\* record per handler and nothing else, and no other step writes an audit
\* record.
C27_ResultMatchesAuditRecord ==
    /\ [](/\ pc = "returned"
             => /\ Len(logFile) >= 1
                /\ ret.username = username
                /\ LET line == logFile[Len(logFile)] IN
                   /\ line.kind = "audit"
                   /\ line.username = ret.username
                   /\ line.engagement_score = ret.engagement_score
                   /\ line.risk_score = ret.risk_score
                   /\ line.action = ret.action
                   /\ line.reason = ret.reason
          /\ \A i \in 1..Len(Returned) :
                LET res == Returned[i] IN
                /\ res.action = _determine_action(res.engagement_score, res.risk_score)
                /\ \E k \in 1..Len(logFile) :
                      /\ logFile[k].kind = "audit"
                      /\ logFile[k].username = res.username
                      /\ logFile[k].engagement_score = res.engagement_score
                      /\ logFile[k].risk_score = res.risk_score
                      /\ logFile[k].action = res.action
                      /\ logFile[k].reason = res.reason)
    /\ [][/\ (pc # "returned" /\ pc' = "returned")
             => /\ pc = "decide"
                /\ \E k \in 1..handlers :
                      /\ Len(logFile') = Len(logFile) + k
                      /\ SubSeq(logFile', 1, Len(logFile)) = logFile
                      /\ \A i \in (Len(logFile) + 1)..Len(logFile') :
                            /\ logFile'[i].kind = "audit"
                            /\ logFile'[i].username = ret'.username
                            /\ logFile'[i].engagement_score = ret'.engagement_score
                            /\ logFile'[i].risk_score = ret'.risk_score
                            /\ logFile'[i].action = ret'.action
                            /\ logFile'[i].reason = ret'.reason
          /\ CountKind(logFile', "audit") # CountKind(logFile, "audit")
             => (pc = "decide" /\ pc' = "returned")]_vars

C27_Witness ==
    /\ pc = "returned" /\ ret.username = "bob"
    /\ ret.action = REMOVE /\ ret.engagement_score = Pct(20) /\ ret.risk_score = Pct(60)
    /\ logFile[Len(logFile)].username = "bob"
    /\ logFile[Len(logFile)].action = REMOVE
    /\ Len(results) = 1


\* an audit_follower call is under way
Evaluating == pc \in {"engagement", "profile", "decide", "except"}

\* C28: every audit_follower call ends, either returning a result or raising
\* after logging the error, never both, after at most 3 invocations of each
\* evaluator; and process_followers returns, having evaluated each follower
\* of the batch exactly once.
C28_Termination ==
    /\ Evaluating ~> (pc \in {"returned", "raised"})
    /\ <>(pc = "batch_done")
    /\ [](/\ engW.calls <= EvaluatorRetry.max_attempts
          /\ profW.calls <= EvaluatorRetry.max_attempts
          /\ pc = "raised" => (ret = NoResult /\ CountKind(logFile, "error") >= 1)
          /\ pc = "returned" => exc = NoError
          /\ Len(results) + Len(shown) = idx
          /\ pc = "batch_done" => idx = Len(followers))
    /\ [][idx' = idx \/ (idx' = idx + 1 /\ pc \in {"returned", "raised"})]_vars

C28_Witness ==
    /\ pc = "batch_done" /\ Len(followers) = 3 /\ idx = 3
    /\ Len(results) = 2 /\ Len(shown) = 1
    /\ shown[1].details = "lookup failed"


=============================================================================
